---- MODULE Spec2Model ----
(***************************************************************************)
(* Model of src/main.py: a FastAPI service that collects one weather       *)
(* observation per catalog city for a user, in batches, behind a           *)
(* call-count rate limiter, persisting the accumulated list in Redis       *)
(* after every batch.                                                      *)
(*                                                                         *)
(* Time is counted in ticks; one tick stands for 30 s, so that the         *)
(* durations of the program (TIME_PERIOD and the inter-batch sleep) keep   *)
(* the ratio 1:1 they have in the source.  The limiter quota and the       *)
(* batch size keep their ratio 1:1 too.  The clock is kept relative: the   *)
(* program reads it only as "time since last_reset" and "time left to      *)
(* sleep", so those two quantities are the state, each saturating at the   *)
(* value beyond which the program no longer distinguishes it.              *)
(*                                                                         *)
(* An observation is modelled by the two fields that the control flow      *)
(* reads (user_id, city_id); datetime, temperature and humidity are        *)
(* payload that no branch of the program looks at.                         *)
(***************************************************************************)
EXTENDS Integers, Sequences, FiniteSets, Bags, TLC

\* ---- bounds of the model ------------------------------------------------
MaxJobs == 2
MaxCatalog == 4
MaxBatch == 3
MaxStarted == 2

\* ---- configuration (main.py:28-30, 132), scaled -------------------------
RATE_LIMIT == 2
TIME_PERIOD == 2
BATCH_SIZE == 2
BATCH_SLEEP == 2

\* CITIES = json.load(cities.json): the ordered catalog of city ids
CITIES == <<100, 200, 300>>

\* the user ids the store has keys for, and the one whose requests Spec explores
Users == {"u1", "u2"}
Callers == {"u1"}
NoUser == ""

\* the tasks created are not counted
NoBudget == -1

\* ---- helpers -------------------------------------------------------------
Range(s) == {s[k] : k \in 1..Len(s)}

Min(a, b) == IF a < b THEN a ELSE b

Max(a, b) == IF a > b THEN a ELSE b

\* WeatherData(user_id=..., city_id=...)
WeatherData(u, c) == [user_id |-> u, city_id |-> c]

\* set(result.city_id for result in results)
CityIds(rs) == {rs[k].city_id : k \in 1..Len(rs)}

\* (variant: one key for every user)
redis_key_shared(u) == <<"weather", NoUser>>

\* redis_key = f"weather:{user_id}"
redis_key(u) == <<"weather", u>>

Keys == {redis_key(u) : u \in Users}

VARIABLES
    redis,        \* the key-value store: key -> [present, val]
    jobs,         \* the bag of collect_weather_data tasks alive in the event loop
    limiter,      \* state of the @limits decorator: num_calls, elapsed = clock() - last_reset
    event,        \* what the step just taken showed outside: an HTTP response or a task's return
    window,       \* window[a] = fetch calls initiated a ticks ago (a < TIME_PERIOD)
    persisted,    \* per user, the list given to the last completed store_weather_data
    covered,      \* per user, cities of the batches that the tasks killed by the last stop had persisted
    partition,    \* inputs and result of the batch computation taken on its own (SpecPartition)
    budget        \* tasks the callers may still have created, or NoBudget when they are not counted

vars == <<redis, jobs, limiter, event, window, persisted, covered, partition, budget>>

\* the step just taken was internal
NoEvent == [op |-> "none", user_id |-> NoUser, status |-> 0, message |-> "", count |-> 0]

\* A task created by asyncio.create_task that has not run yet.  Besides the
\* locals of collect_weather_data a task carries a record of what it did:
\* loaded (city ids of the list it loaded), failed (cities whose fetch gave
\* None), fetches (cities in the order their fetch was created), stores
\* (completed store_weather_data calls) and gap (ticks that passed between
\* its last store and the launch of the batch in flight).
NewJob(u) ==
    [pc |-> "created", user_id |-> u, results |-> <<>>, cities_to_process |-> <<>>,
     i |-> 0, pending |-> {}, got |-> {}, failed |-> {}, sleep_left |-> 0,
     loaded |-> {}, fetches |-> <<>>, stores |-> 0, gap |-> 0]

\* the tasks, and how many of them belong to a user
Running == BagToSet(jobs)

Replace(js, old, new) == (js (-) SetToBag({old})) (+) SetToBag({new})

Remove(js, old) == js (-) SetToBag({old})

\* number of tasks
TaskCount(js) == BagCardinality(js)

ActiveJobs(u) ==
    LET mine == {jb \in Running : jb.user_id = u}
    IN  BagCardinality([jb \in mine |-> jobs[jb]])

\* ---- ProgressStore (main.py:89-99) ---------------------------------------
\* get_weather_data: the stored list, or [] when the key is absent or falsy
get_weather_data(r, u) ==
    IF r[redis_key(u)].present THEN r[redis_key(u)].val ELSE <<>>

\* store_weather_data: redis_client.set(key, json.dumps(list))
store_weather_data(r, u, data) ==
    [r EXCEPT ![redis_key(u)] = [present |-> TRUE, val |-> data]]

\* ---- rate limiter (main.py:53-54: @sleep_and_retry @limits) --------------
\* period_remaining of the @limits decorator: period - elapsed
period_remaining(lim) == TIME_PERIOD - lim.elapsed

\* one more initiated call in the current tick of the rolling record; counts
\* above the quota are all "too many" and are not told apart
Count(w) == [w EXCEPT ![0] = Min(RATE_LIMIT + 1, @ + 1)]

\* advance the rolling record of initiated calls by d ticks
Shift(w, d) == [a \in 0..(TIME_PERIOD - 1) |-> IF a - d >= 0 THEN w[a - d] ELSE 0]

\* One call of the decorated fetch_weather_data, on s = [lim, slept, w]:
\* reset the window when the period has elapsed, count the call, and when the
\* count exceeds the quota sleep (blocking) for the remaining period and retry.
LimitedCall(s) ==
    LET rem == period_remaining(s.lim)
        l1 == IF rem <= 0 THEN [num_calls |-> 0, elapsed |-> 0] ELSE s.lim
        l2 == [l1 EXCEPT !.num_calls = l1.num_calls + 1]
    IN  IF l2.num_calls > RATE_LIMIT
        THEN \* RateLimitException(period_remaining); time.sleep; the retry resets
             [lim |-> [num_calls |-> 1, elapsed |-> 0],
              slept |-> s.slept + rem,
              w |-> Count(Shift(s.w, rem))]
        ELSE [lim |-> l2, slept |-> s.slept, w |-> Count(s.w)]

\* tasks = [fetch_weather_data(...) for city_id in batch]: n limited calls
RECURSIVE CreateTasks(_, _)
CreateTasks(s, n) == IF n = 0 THEN s ELSE CreateTasks(LimitedCall(s), n - 1)

\* ---- BatchCollector (main.py:101-135) ------------------------------------
\* (variant: the filter on processed_city_ids is lost)
RemainingUnfiltered(rs) == CITIES

\* [city for city in catalog if city not in processed], for any catalog
RemainingOf(catalog, processed) == SelectSeq(catalog, LAMBDA c : c \notin processed)

\* cities_to_process = [city for city in CITIES if city not in processed_city_ids]
Remaining(rs) == RemainingOf(CITIES, CityIds(rs))

\* (variant: the slice is one element too long)
SliceTooLong(todo, i, b) == SubSeq(todo, i + 1, Min(i + b + 1, Len(todo)))

\* the slice todo[i:i+b] of Python (i is 0-based as in the source)
Slice(todo, i, b) == SubSeq(todo, i + 1, Min(i + b, Len(todo)))

\* (variant: the slice starts one element early, on the last city of the batch before)
BatchOverlapping(todo, i) == SubSeq(todo, Max(1, i), Min(i + BATCH_SIZE, Len(todo)))

\* (variant: the slice is one element short)
BatchShort(todo, i) == SubSeq(todo, i + 1, Min(i + BATCH_SIZE - 1, Len(todo)))

\* batch = cities_to_process[i:i+BATCH_SIZE]
Batch(todo, i) == Slice(todo, i, BATCH_SIZE)

\* the batches of: for i in range(0, len(todo), b): batch = todo[i:i+b]
Batches(todo, b) ==
    [k \in 1..((Len(todo) + b - 1) \div b) |-> Slice(todo, (k - 1) * b, b)]

\* (variant: one None makes process_batch give up the whole batch)
BatchResultsAllOrNothing(u, batch, got) ==
    IF Range(batch) \subseteq got
    THEN [k \in 1..Len(batch) |-> WeatherData(u, batch[k])]
    ELSE <<>>

\* process_batch: [result for result in results if result is not None]
BatchResults(u, batch, got) ==
    LET kept == SelectSeq(batch, LAMBDA c : c \in got)
    IN  [k \in 1..Len(kept) |-> WeatherData(u, kept[k])]

\* (variant: the batch is appended to a copy that already holds it)
ExtendTwice(results, batch_results) == results \o batch_results \o batch_results

\* results.extend(batch_results)
Extend(results, batch_results) == results \o batch_results

\* the cities whose fetch a task has initiated so far
Attempted(jb) ==
    IF jb.pc = "created" THEN {}
    ELSE Range(SubSeq(jb.cities_to_process, 1,
                      Min(jb.i + BATCH_SIZE, Len(jb.cities_to_process))))

\* what d ticks of time do to a task: a sleeping task has d less to sleep
\* (variant: the clock of asyncio.sleep never advances)
SleptNever(jb, d) == jb

Slept(jb, d) == [jb EXCEPT !.sleep_left = Max(0, @ - d)]

Elapse(js, d) ==
    LET olds == BagToSet(js)
        news == {Slept(jb, d) : jb \in olds}
    IN  [n \in news |-> BagCardinality([o \in {x \in olds : Slept(x, d) = n} |-> js[o]])]

\* the state after process_batch has created the fetch coroutines of a batch;
\* a time.sleep of the limiter blocks the whole event loop meanwhile
Launch(old, jb, batch) ==
    LET s == CreateTasks([lim |-> limiter, slept |-> 0, w |-> window], Len(batch))
        started == [jb EXCEPT !.pc = "gather", !.pending = Range(batch), !.got = {},
                              !.fetches = @ \o batch]
    IN  /\ limiter' = s.lim
        /\ window' = s.w
        /\ jobs' = Elapse(Replace(jobs, old, started), s.slept)

\* the batch computation is not looked at on its own
NoPartition ==
    [catalog |-> <<>>, processed |-> {}, b |-> 1, remaining |-> <<>>, batches |-> <<>>,
     done |-> FALSE]

Init ==
    /\ redis = [k \in Keys |-> [present |-> FALSE, val |-> <<>>]]
    /\ jobs = EmptyBag
    /\ limiter = [num_calls |-> 0, elapsed |-> 0]
    /\ event = NoEvent
    /\ window = [a \in 0..(TIME_PERIOD - 1) |-> 0]
    /\ persisted = [u \in Users |-> <<>>]
    /\ covered = [u \in Users |-> {}]
    /\ partition = NoPartition
    /\ budget = NoBudget

\* the clock advances by one tick
Tick ==
    /\ limiter' = [limiter EXCEPT !.elapsed = Min(TIME_PERIOD, @ + 1)]
    /\ jobs' = Elapse(jobs, 1)
    /\ window' = Shift(window, 1)
    /\ event' = NoEvent
    /\ UNCHANGED <<redis, persisted, covered, partition, budget>>

\* ---- POST /weather (main.py:141-154) -------------------------------------
\* (variant: the completed case is missing, any request on a non-fresh user resumes)
StartMessageNoCompleted(existing) ==
    IF existing # <<>> /\ Len(existing) # Len(CITIES)
    THEN "Resuming data collection"
    ELSE "Data collection started"

\* the message the handler answers with, decided from the stored list
StartMessage(existing) ==
    IF existing # <<>>
    THEN IF Len(existing) = Len(CITIES)
         THEN "Data collection already completed for this user_id"
         ELSE "Resuming data collection"
    ELSE "Data collection started"

post_weather_data(u) ==
    LET existing == get_weather_data(redis, u)
        msg == StartMessage(existing)
    IN  /\ event' = [op |-> "POST", user_id |-> u, status |-> 200,
                     message |-> msg, count |-> 0]
        /\ IF msg = "Data collection started"
           THEN \* asyncio.create_task(collect_weather_data(user_id))
                /\ BagCardinality(jobs) < MaxJobs
                /\ budget # 0
                /\ jobs' = jobs (+) SetToBag({NewJob(u)})
                /\ budget' = IF budget = NoBudget THEN NoBudget ELSE budget - 1
           ELSE UNCHANGED <<jobs, budget>>
        /\ UNCHANGED <<redis, limiter, window, persisted, covered, partition>>

\* ---- GET /weather/{user_id} (main.py:156-162) ----------------------------
\* (variant: progress is computed from a running task's memory, batch in flight included)
get_weather_progress_in_memory(u) ==
    LET mine == {jb \in Running : jb.user_id = u /\ jb.pc = "gather"}
        n == IF mine = {} THEN Len(get_weather_data(redis, u))
             ELSE LET jb == CHOOSE x \in mine : TRUE
                  IN  Len(jb.results) + Cardinality(jb.got)
    IN  /\ event' = IF n = 0
                    THEN [op |-> "GET", user_id |-> u, status |-> 404,
                          message |-> "User ID not found", count |-> 0]
                    ELSE [op |-> "GET", user_id |-> u, status |-> 200,
                          message |-> "progress", count |-> n]
        /\ UNCHANGED <<redis, jobs, limiter, window, persisted, covered, partition, budget>>

get_weather_progress(u) ==
    LET data == get_weather_data(redis, u)
    IN  /\ event' = IF data = <<>>
                    THEN [op |-> "GET", user_id |-> u, status |-> 404,
                          message |-> "User ID not found", count |-> 0]
                    ELSE \* progress = len(data) / len(CITIES) * 100
                         [op |-> "GET", user_id |-> u, status |-> 200,
                          message |-> "progress", count |-> Len(data)]
        /\ UNCHANGED <<redis, jobs, limiter, window, persisted, covered, partition, budget>>

\* ---- collect_weather_data, step by step (main.py:101-135) ----------------
\* return len(results): the task ends
Return(u, n) == [op |-> "return", user_id |-> u, status |-> 0, message |-> "", count |-> n]

\* first run of the task up to its first suspension: load, compute the
\* remaining cities, and either finish (nothing to do) or launch batch 0
StartJob(old) ==
    /\ old \in Running
    /\ old.pc = "created"
    /\ LET u == old.user_id
           rs == get_weather_data(redis, u)
           todo == Remaining(rs)
           jb == [old EXCEPT !.results = rs, !.cities_to_process = todo,
                             !.i = 0, !.loaded = CityIds(rs)]
       IN  IF todo = <<>>
           THEN /\ jobs' = Remove(jobs, old)
                /\ event' = Return(u, Len(rs))
                /\ UNCHANGED <<limiter, window>>
           ELSE /\ Launch(old, jb, Batch(todo, 0))
                /\ event' = NoEvent
    /\ UNCHANGED <<redis, persisted, covered, partition, budget>>

\* one fetch_weather_data coroutine of the batch in flight returns: a
\* WeatherData on status 200 with a well-formed body, None on anything else
FetchReturns(old, c, ok) ==
    /\ old \in Running
    /\ old.pc = "gather"
    /\ c \in old.pending
    /\ jobs' = Replace(jobs, old, [old EXCEPT !.pending = @ \ {c},
                                              !.got = IF ok THEN @ \cup {c} ELSE @,
                                              !.failed = IF ok THEN @ ELSE @ \cup {c}])
    /\ event' = NoEvent
    /\ UNCHANGED <<redis, limiter, window, persisted, covered, partition, budget>>

\* (variant: the store is dedented out of the loop, only the last batch writes)
BatchDoneStoreLast(old) ==
    /\ old \in Running
    /\ old.pc = "gather"
    /\ old.pending = {}
    /\ LET u == old.user_id
           batch == Batch(old.cities_to_process, old.i)
           rs == Extend(old.results, BatchResults(u, batch, old.got))
           more == old.i + BATCH_SIZE < Len(old.cities_to_process)
       IN  IF more
           THEN /\ jobs' = Replace(jobs, old, [old EXCEPT !.pc = "sleep", !.results = rs,
                                                           !.got = {},
                                                           !.sleep_left = BATCH_SLEEP])
                /\ event' = NoEvent
                /\ UNCHANGED <<redis, persisted>>
           ELSE /\ redis' = store_weather_data(redis, u, rs)
                /\ persisted' = [persisted EXCEPT ![u] = rs]
                /\ jobs' = Remove(jobs, old)
                /\ event' = Return(u, Len(rs))
    /\ UNCHANGED <<limiter, window, covered, partition, budget>>

\* gather has returned: extend results, store them, then sleep or finish
BatchDone(old) ==
    /\ old \in Running
    /\ old.pc = "gather"
    /\ old.pending = {}
    /\ LET u == old.user_id
           batch == Batch(old.cities_to_process, old.i)
           rs == Extend(old.results, BatchResults(u, batch, old.got))
           more == old.i + BATCH_SIZE < Len(old.cities_to_process)
       IN  /\ redis' = store_weather_data(redis, u, rs)
           /\ persisted' = [persisted EXCEPT ![u] = rs]
           /\ IF more
              THEN /\ jobs' = Replace(jobs, old, [old EXCEPT !.pc = "sleep", !.results = rs,
                                                              !.got = {},
                                                              !.sleep_left = BATCH_SLEEP,
                                                              !.stores = @ + 1])
                   /\ event' = NoEvent
              ELSE /\ jobs' = Remove(jobs, old)
                   /\ event' = Return(u, Len(rs))
    /\ UNCHANGED <<limiter, window, covered, partition, budget>>

\* (variant: the sleep is not awaited, the next batch is launched at once)
NextBatchNoWait(old) ==
    /\ old \in Running
    /\ old.pc = "sleep"
    /\ LET jb == [old EXCEPT !.i = @ + BATCH_SIZE, !.gap = BATCH_SLEEP - old.sleep_left]
       IN  Launch(old, jb, Batch(jb.cities_to_process, jb.i))
    /\ event' = NoEvent
    /\ UNCHANGED <<redis, persisted, covered, partition, budget>>

\* asyncio.sleep(60) is over: the loop moves to the next batch and launches it
NextBatch(old) ==
    /\ old \in Running
    /\ old.pc = "sleep"
    /\ old.sleep_left = 0
    /\ LET jb == [old EXCEPT !.i = @ + BATCH_SIZE, !.gap = BATCH_SLEEP - old.sleep_left]
       IN  Launch(old, jb, Batch(jb.cities_to_process, jb.i))
    /\ event' = NoEvent
    /\ UNCHANGED <<redis, persisted, covered, partition, budget>>

\* ---- the process stops and is started again -------------------------------
\* cities of the batches a task has already persisted
PersistedBatches(jb) ==
    IF jb.pc = "sleep"
    THEN Range(SubSeq(jb.cities_to_process, 1, Min(jb.i + BATCH_SIZE, Len(jb.cities_to_process))))
    ELSE IF jb.pc = "gather" THEN Range(SubSeq(jb.cities_to_process, 1, jb.i))
    ELSE {}

\* Tasks and the limiter live in memory and are lost; Redis keeps its keys.
\* The process can be stopped at any time, with tasks alive or with none.
Crash ==
    /\ covered' = [u \in Users |->
            UNION {PersistedBatches(jb) : jb \in {x \in Running : x.user_id = u}}]
    /\ jobs' = EmptyBag
    /\ limiter' = [num_calls |-> 0, elapsed |-> 0]
    /\ event' = NoEvent
    /\ UNCHANGED <<redis, window, persisted, partition, budget>>

\* the steps that change the state of the service
Work ==
    \/ Tick
    \/ \E u \in Callers : post_weather_data(u)
    \/ \E jb \in Running : StartJob(jb)
    \/ \E jb \in Running : \E c \in Range(CITIES) : \E ok \in BOOLEAN : FetchReturns(jb, c, ok)
    \/ \E jb \in Running : BatchDone(jb)
    \/ \E jb \in Running : NextBatch(jb)

Next ==
    \/ Work
    \/ \E u \in Callers : get_weather_progress(u)

Spec == Init /\ [][Next]_vars

\* the service when the process may also be stopped and started again (the
\* read-only progress query is left out: it changes nothing a stop could lose)
NextCrash ==
    \/ Work
    \/ Crash

SpecCrash == Init /\ [][NextCrash]_vars

\* ---- Redis raises (main.py:136-139) ---------------------------------------
\* what the except clause of collect_weather_data leaves behind: a logged
\* error and a task that ended with the exception
Failed(u, what) == [op |-> "failed", user_id |-> u, status |-> 0, message |-> what, count |-> 0]

\* redis_client.get raises in the first run of the task: nothing was fetched
LoadFails(old) ==
    /\ old \in Running
    /\ old.pc = "created"
    /\ jobs' = Remove(jobs, old)
    /\ event' = Failed(old.user_id, "get_weather_data")
    /\ UNCHANGED <<redis, limiter, window, persisted, covered, partition, budget>>

\* (variant: the exception of the store is swallowed and the loop goes on)
StoreFailsContinue(old) ==
    /\ old \in Running
    /\ old.pc = "gather"
    /\ old.pending = {}
    /\ LET u == old.user_id
           batch == Batch(old.cities_to_process, old.i)
           rs == Extend(old.results, BatchResults(u, batch, old.got))
           more == old.i + BATCH_SIZE < Len(old.cities_to_process)
       IN  /\ jobs' = IF more
                      THEN Replace(jobs, old, [old EXCEPT !.pc = "sleep", !.results = rs,
                                                          !.got = {},
                                                          !.sleep_left = BATCH_SLEEP])
                      ELSE Remove(jobs, old)
           /\ event' = Failed(u, "store_weather_data")
    /\ UNCHANGED <<redis, limiter, window, persisted, covered, partition, budget>>

\* redis_client.set raises after gather has returned: the key keeps its value,
\* the exception leaves the loop through the except clause and ends the task
StoreFails(old) ==
    /\ old \in Running
    /\ old.pc = "gather"
    /\ old.pending = {}
    /\ jobs' = Remove(jobs, old)
    /\ event' = Failed(old.user_id, "store_weather_data")
    /\ UNCHANGED <<redis, limiter, window, persisted, covered, partition, budget>>

\* the service when a Redis call of a task may raise (without the read-only
\* progress query)
NextFault ==
    \/ Work
    \/ \E jb \in Running : LoadFails(jb)
    \/ \E jb \in Running : StoreFails(jb)

SpecFault == Init /\ [][NextFault]_vars

\* ---- two users ---------------------------------------------------------------
\* the service when every user sends requests
NextUsers ==
    \/ Tick
    \/ \E u \in Users : post_weather_data(u)
    \/ \E u \in Users : get_weather_progress(u)
    \/ \E jb \in Running : StartJob(jb)
    \/ \E jb \in Running : \E c \in Range(CITIES) : \E ok \in BOOLEAN : FetchReturns(jb, c, ok)
    \/ \E jb \in Running : BatchDone(jb)
    \/ \E jb \in Running : NextBatch(jb)

SpecUsers == Init /\ [][NextUsers]_vars

\* ---- the service under a fair scheduler --------------------------------------
\* one step of some task
TaskStep ==
    \E jb \in Running :
        \/ StartJob(jb)
        \/ \E c \in Range(CITIES) : \E ok \in BOOLEAN : FetchReturns(jb, c, ok)
        \/ BatchDone(jb)
        \/ NextBatch(jb)

\* the callers have MaxStarted tasks created in all
InitLive ==
    /\ redis = [k \in Keys |-> [present |-> FALSE, val |-> <<>>]]
    /\ jobs = EmptyBag
    /\ limiter = [num_calls |-> 0, elapsed |-> 0]
    /\ event = NoEvent
    /\ window = [a \in 0..(TIME_PERIOD - 1) |-> 0]
    /\ persisted = [u \in Users |-> <<>>]
    /\ covered = [u \in Users |-> {}]
    /\ partition = NoPartition
    /\ budget = MaxStarted

\* Time passes, the event loop runs a task that is ready, and every fetch
\* comes back with an answer or an error.  The tasks being finitely many, a
\* task that stays ready is run.  The read-only progress query is left out.
SpecLive ==
    /\ InitLive
    /\ [][Work]_vars
    /\ WF_vars(Tick)
    /\ WF_vars(TaskStep)

\* ---- the batch computation on its own (main.py:113-118) --------------------
\* city ids, catalogs (lists of distinct city ids) and processed sets to try
CityUniverse == {100 * k : k \in 1..MaxCatalog}

Catalogs ==
    {c \in UNION {[1..n -> CityUniverse] : n \in 0..MaxCatalog} :
        \A a, b \in 1..Len(c) : a # b => c[a] # c[b]}

InitPartition ==
    /\ redis = [k \in Keys |-> [present |-> FALSE, val |-> <<>>]]
    /\ jobs = EmptyBag
    /\ limiter = [num_calls |-> 0, elapsed |-> 0]
    /\ event = NoEvent
    /\ window = [a \in 0..(TIME_PERIOD - 1) |-> 0]
    /\ persisted = [u \in Users |-> <<>>]
    /\ covered = [u \in Users |-> {}]
    /\ \E c \in Catalogs : \E p \in SUBSET CityUniverse : \E b \in 1..MaxBatch :
          partition = [NoPartition EXCEPT !.catalog = c, !.processed = p, !.b = b]
    /\ budget = NoBudget

\* lines 114-118 applied to the inputs: the remaining cities and their batches
Partition ==
    /\ ~partition.done
    /\ LET rem == RemainingOf(partition.catalog, partition.processed)
       IN  partition' = [partition EXCEPT !.remaining = rem,
                                          !.batches = Batches(rem, partition.b),
                                          !.done = TRUE]
    /\ UNCHANGED <<redis, jobs, limiter, event, window, persisted, covered, budget>>

SpecPartition == InitPartition /\ [][Partition]_vars

\* ======================= properties =======================================

\* the stored list of a user
Stored(u) == get_weather_data(redis, u)

\* number of fetch calls initiated in the last TIME_PERIOD ticks
RECURSIVE SumTo(_, _)
SumTo(w, a) == IF a < 0 THEN 0 ELSE w[a] + SumTo(w, a - 1)

CallsInWindow == SumTo(window, TIME_PERIOD - 1)

\* C1: every user has at most one running collect_weather_data task, whatever
\* the interleaving of start requests and task steps.
C1_OneJobPerUser == \A u \in Users : ActiveJobs(u) <= 1

\* C2: in every window of TIME_PERIOD consecutive ticks at most RATE_LIMIT
\* fetch calls are initiated.
C2_RollingRateBound == CallsInWindow <= RATE_LIMIT

\* C3 (as stated): after the process stopped, a new run for the user fetches
\* no city of the batches that the stopped tasks had already persisted.
C3_RefetchOnlyOutsidePersistedBatches ==
    \A jb \in Running :
        jb.pc # "created"
            => Range(jb.cities_to_process) \cap covered[jb.user_id] = {}

\* C3 (amended): a stop leaves the store holding exactly the list of the last
\* completed write of each user, and a run started after it fetches exactly
\* the catalog cities that have no observation in the list it loads, which
\* includes the cities of persisted batches whose fetch had failed.
C3_ResumeFromPersistedState ==
    /\ \A u \in Users : Stored(u) = persisted[u]
    /\ \A u \in Users : redis[redis_key(u)].present \/ persisted[u] = <<>>
    /\ \A jb \in Running :
          (covered[jb.user_id] # {} /\ jb.pc # "created")
              => /\ Range(jb.cities_to_process) = Range(CITIES) \ jb.loaded
                 /\ Len(jb.cities_to_process) = Cardinality(Range(CITIES) \ jb.loaded)

\* C3 witness: a run started after a stop is fetching a batch that holds a city
\* of a batch persisted before the stop, and another run after the stop has
\* loaded a non-empty list.
C3_Witness ==
    /\ \E jb \in Running :
          /\ jb.pc = "gather"
          /\ Range(Batch(jb.cities_to_process, jb.i)) \cap covered[jb.user_id] # {}
    /\ \E jb \in Running :
          jb.pc = "gather" /\ jb.loaded # {} /\ covered[jb.user_id] # {}

\* C4: a run never fetches a city that was in the user's stored list when the
\* run loaded it.
C4_NoDuplicateFetch ==
    \A jb \in Running : Attempted(jb) \cap jb.loaded = {}

\* C4 witness: a run that loaded a non-empty list has a batch in flight.
C4_Witness ==
    \E jb \in Running : jb.pc = "gather" /\ jb.loaded # {} /\ jb.pending # {}

\* C5: for a user whose stored list covers the whole catalog, a start request
\* answers "completed", creates no task, initiates no fetch and leaves the
\* store as it is.
C5_CompletedIsIdempotent ==
    [][\A u \in Users :
          (CityIds(Stored(u)) = Range(CITIES) /\ post_weather_data(u))
              => /\ event'.message = "Data collection already completed for this user_id"
                 /\ jobs' = jobs
                 /\ redis' = redis
                 /\ window' = window
                 /\ limiter' = limiter]_vars

\* C5 witness: a start request has just been answered "completed" for a user
\* whose stored list covers the catalog.
C5_Witness ==
    /\ event.op = "POST"
    /\ event.message = "Data collection already completed for this user_id"
    /\ CityIds(Stored(event.user_id)) = Range(CITIES)

\* C6: a start request for a user whose stored list is non-empty but does not
\* cover the catalog leaves a task running for that user.
C6_PartialStateIsResumed ==
    (/\ event.op = "POST"
     /\ Stored(event.user_id) # <<>>
     /\ CityIds(Stored(event.user_id)) # Range(CITIES))
        => ActiveJobs(event.user_id) >= 1

\* C7: a progress query answers NotFound exactly when the user has no stored
\* list; a stored list, even one with zero observations, gets a percentage.
C7_NotFoundIffNoState ==
    event.op = "GET" => (event.status = 404 <=> ~redis[redis_key(event.user_id)].present)

\* C8: every stored list holds at most one observation per city, only cities
\* of the catalog, and only observations of the user it is keyed by.
C8_StateInvariant ==
    \A u \in Users :
        /\ Cardinality(CityIds(Stored(u))) = Len(Stored(u))
        /\ CityIds(Stored(u)) \subseteq Range(CITIES)
        /\ \A k \in 1..Len(Stored(u)) : Stored(u)[k].user_id = u

\* C8 witness: two runs of one user are alive and the stored list, written by
\* one of them while the other was running, holds two observations or more.
C8_Witness ==
    \E u \in Users :
        /\ ActiveJobs(u) >= 2
        /\ Len(Stored(u)) >= 2
        /\ \E jb \in Running : jb.user_id = u /\ jb.loaded # {}

\* C9: when a batch ends with failed fetches, the write stores the run's list
\* plus exactly the cities of the batch that succeeded, no failed city of the
\* run is in it, and the run goes on to sleep before the next batch (or
\* returns after the last one).
C9_FailureIsolation ==
    [][\A jb \in Running :
          BatchDone(jb) =>
              LET u == jb.user_id
                  batch == Range(Batch(jb.cities_to_process, jb.i))
                  more == Attempted(jb) # Range(jb.cities_to_process)
                  written == get_weather_data(redis', u)
              IN  /\ CityIds(written) = CityIds(jb.results) \cup (batch \ jb.failed)
                  /\ CityIds(written) \cap jb.failed = {}
                  /\ Len(written) = Len(jb.results) + Cardinality(batch \ jb.failed)
                  /\ IF more
                     THEN \E nb \in BagToSet(jobs') :
                              /\ nb.pc = "sleep" /\ nb.user_id = u /\ nb.i = jb.i
                              /\ nb.results = written
                     ELSE event' = Return(u, Len(written))]_vars

\* C9 witness: a run is fetching its second batch after a first batch in which
\* one fetch failed and one succeeded.
C9_Witness ==
    \E jb \in Running :
        /\ jb.pc = "gather"
        /\ jb.i = BATCH_SIZE
        /\ jb.failed # {}
        /\ Len(jb.results) > Cardinality(jb.loaded)

\* C10: a progress query reports the length of the list written by the last
\* completed store_weather_data for the user (NotFound when that list is
\* empty or was never written); successes of a batch in flight do not count.
C10_ProgressIsLastPersist ==
    event.op = "GET" =>
        IF persisted[event.user_id] = <<>>
        THEN event.status = 404
        ELSE event.status = 200 /\ event.count = Len(persisted[event.user_id])

\* C10 witness: a query has just been answered with a count while a run of the
\* same user holds a successful fetch that is not persisted yet.
C10_Witness ==
    /\ event.op = "GET"
    /\ event.status = 200
    /\ \E jb \in Running :
          jb.user_id = event.user_id /\ jb.pc = "gather" /\ jb.got # {}


\* the stored form of a list of cities of one user
Observations(u, cs) == [k \in 1..Len(cs) |-> WeatherData(u, cs[k])]

\* C11: with the catalog 100, 200, 300 and batches of two, a run that loaded
\* nothing fetches 100 and 200 as its first batch and stores, then fetches 300
\* and stores; when every fetch succeeded the stored list is 100, 200, 300 and
\* a progress query counts 3 of 3, and when only the fetch of 200 failed the
\* stored list is exactly 100, 300 and a progress query counts 2 of 3.
C11_Scenario ==
    [][/\ \A jb \in Running :
            (jb.loaded = {} /\ BatchDone(jb)) =>
                LET u == jb.user_id
                    written == get_weather_data(redis', u)
                IN  /\ jb.cities_to_process = <<100, 200, 300>>
                    /\ jb.i = 0 =>
                          /\ jb.fetches = <<100, 200>>
                          /\ jb.stores = 0
                          /\ jb.failed = {} => written = Observations(u, <<100, 200>>)
                          /\ jb.failed = {200} => written = Observations(u, <<100>>)
                    /\ jb.i = 2 =>
                          /\ jb.fetches = <<100, 200, 300>>
                          /\ jb.stores = 1
                          /\ jb.failed = {} =>
                                /\ written = Observations(u, <<100, 200, 300>>)
                                /\ event' = Return(u, 3)
                          /\ jb.failed = {200} =>
                                /\ written = Observations(u, <<100, 300>>)
                                /\ event' = Return(u, 2)
       /\ \A u \in Users :
            get_weather_progress(u) =>
                /\ Stored(u) = Observations(u, <<100, 200, 300>>)
                      => event'.status = 200 /\ event'.count = 3 /\ Len(CITIES) = 3
                /\ Stored(u) = Observations(u, <<100, 300>>)
                      => event'.status = 200 /\ event'.count = 2 /\ Len(CITIES) = 3]_vars

\* C11 witness: no run is alive, the stored list is exactly 100, 300, and a
\* progress query has just counted 2.
C11_Witness ==
    /\ Running = {}
    /\ event.op = "GET"
    /\ event.count = 2
    /\ Stored(event.user_id) = Observations(event.user_id, <<100, 300>>)

\* C12: a run has a batch in flight only when every earlier batch has been
\* stored, the fetches it has created never go beyond the batch after its last
\* store, and while it sleeps between batches no fetch of it is outstanding.
C12_PersistBeforeNextBatch ==
    \A jb \in Running :
        /\ jb.pc = "gather" =>
              /\ jb.i = jb.stores * BATCH_SIZE
              /\ jb.pending \subseteq Range(Batch(jb.cities_to_process, jb.i))
              /\ Len(jb.fetches) <= (jb.stores + 1) * BATCH_SIZE
        /\ jb.pc = "sleep" =>
              /\ jb.pending = {}
              /\ jb.i + BATCH_SIZE = jb.stores * BATCH_SIZE
              /\ Len(jb.fetches) <= jb.stores * BATCH_SIZE

\* C12 witness: a run has its second batch in flight after one store.
C12_Witness ==
    \E jb \in Running :
        jb.pc = "gather" /\ jb.stores = 1 /\ jb.i = BATCH_SIZE /\ jb.pending # {}

\* C14: the fetches a run has created are the cities it had to process, each
\* once, in order, up to the end of the batch in flight; every one of them is
\* either outstanding, succeeded or failed, a failed one is not fetched again,
\* and when the last batch is in flight every city it had to process has been
\* fetched.
C14_OneAttemptPerCity ==
    \A jb \in Running :
        jb.pc # "created" =>
            LET n == Len(jb.cities_to_process)
                upto == Min(jb.i + BATCH_SIZE, n)
                succeeded == (CityIds(jb.results) \ jb.loaded) \cup jb.got
            IN  /\ jb.fetches = SubSeq(jb.cities_to_process, 1, upto)
                /\ Cardinality(Range(jb.fetches)) = Len(jb.fetches)
                /\ Range(jb.cities_to_process) = Range(CITIES) \ jb.loaded
                /\ jb.pending \cup succeeded \cup jb.failed = Range(jb.fetches)
                /\ jb.pending \cap jb.failed = {}
                /\ jb.pending \cap succeeded = {}
                /\ succeeded \cap jb.failed = {}
                /\ jb.i + BATCH_SIZE >= n => Range(jb.fetches) = Range(jb.cities_to_process)

\* C14 witness: a run has its last batch in flight, a fetch of an earlier
\* batch failed, and the limiter quota of the period is used up.
C14_Witness ==
    \E jb \in Running :
        /\ jb.pc = "gather"
        /\ jb.i > 0
        /\ jb.failed # {}
        /\ jb.pending # {}
        /\ limiter.num_calls = RATE_LIMIT

\* C17: a run launches a batch after the first only when the whole
\* inter-batch sleep has passed since its last store, and a run never sleeps
\* after its last batch, also when the number of cities to process is a
\* multiple of the batch size.
C17_InterBatchPacing ==
    \A jb \in Running :
        /\ (jb.pc = "gather" /\ jb.i > 0) => jb.gap >= BATCH_SLEEP
        /\ jb.pc = "sleep" =>
              /\ jb.i + BATCH_SIZE < Len(jb.cities_to_process)
              /\ jb.sleep_left <= BATCH_SLEEP

\* C17 witness: one run has its second batch in flight after the sleep, and
\* another run has a single batch of exactly BATCH_SIZE cities in flight.
C17_Witness ==
    /\ \E jb \in Running : jb.pc = "gather" /\ jb.i > 0 /\ jb.gap = BATCH_SLEEP
    /\ \E jb \in Running :
          jb.pc = "gather" /\ jb.i = 0 /\ Len(jb.cities_to_process) = BATCH_SIZE

\* C19: no step makes the set of city ids in a user's stored list smaller.
C19_MonotonicStore ==
    [][\A u \in Users :
          CityIds(Stored(u)) \subseteq CityIds(get_weather_data(redis', u))]_vars

\* C20: when a start request answers "completed", the user's stored list has
\* an observation for every city of the catalog.
C20_CompletedIsFullCoverage ==
    (/\ event.op = "POST"
     /\ event.message = "Data collection already completed for this user_id")
        => CityIds(Stored(event.user_id)) = Range(CITIES)

\* C20 witness: a start request has just been answered "completed" on a list
\* of catalog size while another run of that user is still alive.
C20_Witness ==
    /\ event.op = "POST"
    /\ event.message = "Data collection already completed for this user_id"
    /\ Len(Stored(event.user_id)) = Len(CITIES)
    /\ ActiveJobs(event.user_id) >= 1


\* position of a city in a list of distinct cities
Position(seq, c) == CHOOSE k \in 1..Len(seq) : seq[k] = c

\* the concatenation of the first k lists of a list of lists
RECURSIVE Concat(_, _)
Concat(bs, k) == IF k = 0 THEN <<>> ELSE Concat(bs, k - 1) \o bs[k]

\* C13: for every catalog, processed set and batch size b >= 1: the remaining
\* cities are the catalog cities outside the processed set, in catalog order;
\* the batches have between 1 and b cities, all but the last exactly b, they
\* are pairwise disjoint, and put end to end they are the remaining cities
\* (no batch at all when nothing remains).
C13_BatchPartition ==
    partition.done =>
        LET cat == partition.catalog
            rem == partition.remaining
            bs == partition.batches
            b == partition.b
        IN  /\ Range(rem) = Range(cat) \ partition.processed
            /\ Len(rem) = Cardinality(Range(rem))
            /\ \A x, y \in 1..Len(rem) :
                  x < y => Position(cat, rem[x]) < Position(cat, rem[y])
            /\ \A k \in 1..Len(bs) : Len(bs[k]) >= 1 /\ Len(bs[k]) <= b
            /\ \A k \in 1..(Len(bs) - 1) : Len(bs[k]) = b
            /\ \A j, k \in 1..Len(bs) : j # k => Range(bs[j]) \cap Range(bs[k]) = {}
            /\ Concat(bs, Len(bs)) = rem
            /\ rem = <<>> => bs = <<>>

\* C13 witness: a catalog of which one city is already processed gives two
\* batches or more, the last shorter than the batch size.
C13_Witness ==
    /\ partition.done
    /\ partition.processed \cap Range(partition.catalog) # {}
    /\ Len(partition.batches) >= 2
    /\ Len(partition.batches[Len(partition.batches)]) < partition.b


\* C16: when a Redis call of a task raises, the task ends (one task less, the
\* others as they were), no fetch is created by the step (limiter and window
\* untouched) and every key keeps the value of the last store that succeeded;
\* a task is only ever created by a POST request, never by a failure.
C16_OrchestrationFailure ==
    [][/\ event'.op = "failed" =>
            /\ redis' = redis
            /\ persisted' = persisted
            /\ get_weather_data(redis', event'.user_id) = persisted[event'.user_id]
            /\ limiter' = limiter
            /\ window' = window
            /\ TaskCount(jobs') = TaskCount(jobs) - 1
            /\ \A jb \in BagToSet(jobs') : jb \in Running /\ jobs'[jb] <= jobs[jb]
       /\ TaskCount(jobs') > TaskCount(jobs) => event'.op = "POST"]_vars

\* C16 witness: the store of the second batch raised after the first batch
\* had been persisted, and no task is left.
C16_Witness ==
    /\ event.op = "failed"
    /\ event.message = "store_weather_data"
    /\ Len(persisted[event.user_id]) >= 1
    /\ Len(persisted[event.user_id]) < Len(CITIES)
    /\ Running = {}


\* the tasks of the users other than v
TasksOfOthers(js, v) ==
    LET others == {jb \in BagToSet(js) : jb.user_id # v}
    IN  [jb \in others |-> js[jb]]

\* C18: a step that changes the stored list of a user v is the store of a task
\* of v (no request, and no task of another user moved), and the list it
\* writes holds observations of v only; the answer to a request of v is decided
\* by the stored list of v alone.
C18_PerUserIsolation ==
    [][\A v \in Users :
        /\ (redis'[redis_key(v)] # redis[redis_key(v)] \/ persisted'[v] # persisted[v]) =>
              /\ event'.op \notin {"POST", "GET"}
              /\ TasksOfOthers(jobs', v) = TasksOfOthers(jobs, v)
              /\ \E jb \in Running :
                    /\ jb.user_id = v
                    /\ jb.pc = "gather"
                    /\ jb.pending = {}
                    /\ jobs' (-) jobs \sqsubseteq SetToBag({jb2 \in BagToSet(jobs') : jb2.user_id = v})
                    /\ jobs (-) jobs' = SetToBag({jb})
              /\ \A k \in 1..Len(get_weather_data(redis', v)) :
                    get_weather_data(redis', v)[k].user_id = v
        /\ (event'.op = "POST" /\ event'.user_id = v) =>
              event'.message = StartMessage(Stored(v))
        /\ (event'.op = "GET" /\ event'.user_id = v) =>
              /\ event'.status = 404 <=> Stored(v) = <<>>
              /\ event'.count = Len(Stored(v))]_vars

\* C18 witness: both users have a stored list, of different lengths, while a
\* task of one of them is still running.
C18_Witness ==
    /\ Stored("u1") # <<>>
    /\ Stored("u2") # <<>>
    /\ Len(Stored("u1")) # Len(Stored("u2"))
    /\ \E jb \in Running : jb.user_id = "u2" /\ jb.pc = "sleep"


\* C15: every task ends, and a task ends only by returning; the step of the
\* return belongs to a task that created the fetches of all its remaining
\* cities, once each and batch after batch, and stored after every batch before
\* the last; the total returned is the length of the list the step leaves in
\* the store (the list just stored, or the list loaded when nothing remained).
C15_JobCompletion ==
    /\ (Running # {}) ~> (Running = {})
    /\ [][/\ TaskCount(jobs') < TaskCount(jobs) => event'.op = "return"
          /\ event'.op = "return" =>
                /\ event'.count = Len(get_weather_data(redis', event'.user_id))
                /\ \E jb \in Running :
                      /\ jb.user_id = event'.user_id
                      /\ jobs' = Remove(jobs, jb)
                      /\ \/ /\ jb.pc = "created"
                            /\ Remaining(Stored(jb.user_id)) = <<>>
                            /\ redis' = redis
                         \/ /\ jb.pc = "gather"
                            /\ jb.pending = {}
                            /\ jb.fetches = jb.cities_to_process
                            /\ jb.stores + 1 = Len(Batches(jb.cities_to_process, BATCH_SIZE))]_vars

\* C15 witness: a task returns a total of two after two batches, one fetch of
\* which failed.
C15_Witness ==
    /\ event.op = "return"
    /\ event.count = 2
    /\ Len(persisted[event.user_id]) = 2
    /\ ActiveJobs(event.user_id) = 0

====
